---------------------------- MODULE Spec2Model ----------------------------
(***************************************************************************)
(* A model of detect_captcha: the reference store (solver.py), the vector  *)
(* and raster contour extractors and the geometry helpers (utils.py), the  *)
(* 1-nearest-neighbour matcher (solver.py), the database rebuild script    *)
(* (train.py) and the /solve handler (main.py).                            *)
(*                                                                         *)
(* Numbers.  A Python float that is only compared or averaged (point       *)
(* coordinates, distances, scores) is modelled as an exact rational        *)
(* <<numerator, denominator>>; float('inf') is <<1, 0>>.  A Python float   *)
(* from which an integer is taken with int() or round() (the stride of     *)
(* downsample_points, the band count of process_png_content) is modelled   *)
(* as an IEEE-754 binary64 value, bit by bit, with round-to-nearest-even.  *)
(***************************************************************************)
EXTENDS Integers, Sequences, FiniteSets, TLC

VARIABLES
    knowledge_base,   \* CaptchaSolver.knowledge_base of the serving process
    db_file,          \* the file at CaptchaSolver.db_path
    op,               \* the operation that ran last
    arg,              \* its input
    ret               \* what it returned (or that it raised)

vars == <<knowledge_base, db_file, op, arg, ret>>

-----------------------------------------------------------------------------
(* Exact rationals                                                         *)

Abs(n) == IF n < 0 THEN -n ELSE n

RECURSIVE GCD(_, _)
GCD(a, b) == IF b = 0 THEN a ELSE GCD(b, a % b)

Frac(n, d) ==
    LET s == IF d < 0 THEN -1 ELSE 1
        g == GCD(Abs(n), Abs(d))
    IN  IF g = 0 THEN <<0, 1>> ELSE <<(s * n) \div g, (s * d) \div g>>

\* float('inf'), solver.py lines 77 and 125
Inf == <<1, 0>>

IsInf(a) == a[2] = 0

FracOfInt(n) == <<n, 1>>

FracAdd(a, b) ==
    IF IsInf(a) \/ IsInf(b) THEN Inf
    ELSE Frac(a[1] * b[2] + b[1] * a[2], a[2] * b[2])

FracSub(a, b) == Frac(a[1] * b[2] - b[1] * a[2], a[2] * b[2])

FracMul(a, b) == Frac(a[1] * b[1], a[2] * b[2])

\* a / b for b # 0
FracDiv(a, b) == IF IsInf(a) THEN Inf ELSE Frac(a[1] * b[2], a[2] * b[1])

\* a < b
FracLess(a, b) ==
    IF IsInf(a) THEN FALSE
    ELSE IF IsInf(b) THEN TRUE
    ELSE a[1] * b[2] < b[1] * a[2]

FracMin(a, b) == IF FracLess(b, a) THEN b ELSE a

FracMax(a, b) == IF FracLess(a, b) THEN b ELSE a

RECURSIVE SeqMin(_)
SeqMin(s) == IF Len(s) = 1 THEN s[1] ELSE FracMin(s[1], SeqMin(Tail(s)))

RECURSIVE SeqMax(_)
SeqMax(s) == IF Len(s) = 1 THEN s[1] ELSE FracMax(s[1], SeqMax(Tail(s)))

-----------------------------------------------------------------------------
(* Points.  A point is its two coordinates and the Python container that   *)
(* holds them: a tuple (extract_points_from_d, normalize_points) or a      *)
(* list (contours of process_png_content, anything read back from JSON).   *)

Pt(x, y, py) == [x |-> x, y |-> y, py |-> py]

\* the coordinates of a cloud, without the container
Coords(points) == [i \in 1..Len(points) |-> <<points[i].x, points[i].y>>]

\* the coordinates of the entries of a store, with their labels
StoreData(kb) ==
    [i \in 1..Len(kb) |-> <<kb[i].label, Coords(kb[i].points)>>]

-----------------------------------------------------------------------------
(* IEEE-754 binary64.  A natural number of any size is a sequence of limbs *)
(* in base 2^LimbBits, least significant first, without leading zero limbs *)
(* (BN); a non-negative double is [m, e], the value m * 2^e, m below 2^53. *)

MantissaBits == 53

LimbBits == 14

Base == 2 ^ LimbBits

RECURSIVE BNFromInt(_)
BNFromInt(n) == IF n = 0 THEN <<>> ELSE <<n % Base>> \o BNFromInt(n \div Base)

RECURSIVE BNToInt(_)
BNToInt(b) == IF b = <<>> THEN 0 ELSE b[1] + Base * BNToInt(Tail(b))

RECURSIVE BNTrim(_)
BNTrim(b) ==
    IF b = <<>> THEN <<>>
    ELSE IF b[Len(b)] = 0 THEN BNTrim(SubSeq(b, 1, Len(b) - 1))
    ELSE b

RECURSIVE IntBitLen(_)
IntBitLen(n) == IF n = 0 THEN 0 ELSE 1 + IntBitLen(n \div 2)

\* the number of bits of b
BNBitLen(b) ==
    IF b = <<>> THEN 0 ELSE LimbBits * (Len(b) - 1) + IntBitLen(b[Len(b)])

BNLimb(b, j) == IF j >= 1 /\ j <= Len(b) THEN b[j] ELSE 0

\* bit i of b, bit 1 the least significant
BNBit(b, i) == (BNLimb(b, (i - 1) \div LimbBits + 1) \div 2 ^ ((i - 1) % LimbBits)) % 2

RECURSIVE BNCmpAt(_, _, _)
BNCmpAt(a, b, i) ==
    IF i = 0 THEN 0
    ELSE IF a[i] # b[i] THEN (IF a[i] > b[i] THEN 1 ELSE -1)
    ELSE BNCmpAt(a, b, i - 1)

\* -1, 0 or 1 as a < b, a = b or a > b
BNCmp(a, b) ==
    IF Len(a) # Len(b) THEN (IF Len(a) > Len(b) THEN 1 ELSE -1)
    ELSE BNCmpAt(a, b, Len(a))

BNRest(b) == IF b = <<>> THEN <<>> ELSE Tail(b)

RECURSIVE BNAddC(_, _, _)
BNAddC(a, b, c) ==
    IF a = <<>> /\ b = <<>> THEN (IF c = 0 THEN <<>> ELSE <<c>>)
    ELSE LET t == BNLimb(a, 1) + BNLimb(b, 1) + c
         IN  <<t % Base>> \o BNAddC(BNRest(a), BNRest(b), t \div Base)

BNAdd(a, b) == BNAddC(a, b, 0)

RECURSIVE BNSubB(_, _, _)
BNSubB(a, b, borrow) ==
    IF a = <<>> THEN <<>>
    ELSE LET t == a[1] - BNLimb(b, 1) - borrow
         IN  <<IF t < 0 THEN t + Base ELSE t>>
                 \o BNSubB(Tail(a), BNRest(b), IF t < 0 THEN 1 ELSE 0)

\* a - b for a >= b
BNSub(a, b) == BNTrim(BNSubB(a, b, 0))

\* a * c + carry for a single limb c
RECURSIVE BNMulLimb(_, _, _)
BNMulLimb(a, c, carry) ==
    IF a = <<>> THEN (IF carry = 0 THEN <<>> ELSE <<carry>>)
    ELSE LET t == a[1] * c + carry
         IN  <<t % Base>> \o BNMulLimb(Tail(a), c, t \div Base)

\* a * 2^k
BNShl(a, k) ==
    IF a = <<>> THEN <<>>
    ELSE [i \in 1..(k \div LimbBits) |-> 0]
             \o BNTrim(BNMulLimb(a, 2 ^ (k % LimbBits), 0))

\* a \div 2^k
BNShr(a, k) ==
    LET q == k \div LimbBits
        r == k % LimbBits
    IN  BNTrim([j \in 1..(Len(a) - q) |->
                   BNLimb(a, q + j) \div 2 ^ r
                       + (BNLimb(a, q + j + 1) % 2 ^ r) * 2 ^ (LimbBits - r)])

\* acc + a * b, one limb of b at a time
RECURSIVE BNMulAcc(_, _, _)
BNMulAcc(a, b, acc) ==
    IF b = <<>> THEN acc
    ELSE BNMulAcc(<<0>> \o a, Tail(b), BNAdd(acc, BNTrim(BNMulLimb(a, b[1], 0))))

BNMul(a, b) == IF a = <<>> \/ b = <<>> THEN <<>> ELSE BNMulAcc(a, b, <<>>)

\* the largest digit d in lo..hi with d * b <= r, given lo * b <= r
RECURSIVE BNDigit(_, _, _, _)
BNDigit(r, b, lo, hi) ==
    IF lo = hi THEN lo
    ELSE LET mid == (lo + hi + 1) \div 2
         IN  IF BNCmp(BNTrim(BNMulLimb(b, mid, 0)), r) <= 0
             THEN BNDigit(r, b, mid, hi)
             ELSE BNDigit(r, b, lo, mid - 1)

\* long division of a by b > 0 once the limbs of a from limb j up are
\* brought down: [q, r]
RECURSIVE BNDivFrom(_, _, _)
BNDivFrom(a, b, j) ==
    IF j > Len(a) THEN [q |-> <<>>, r |-> <<>>]
    ELSE LET prev == BNDivFrom(a, b, j + 1)
             r1   == BNTrim(<<a[j]>> \o prev.r)
             d    == BNDigit(r1, b, 0, Base - 1)
         IN  [q |-> <<d>> \o prev.q,
              r |-> BNSub(r1, BNTrim(BNMulLimb(b, d, 0)))]

\* [q, r] with a = q * b + r and r < b
BNDivMod(a, b) ==
    LET st == BNDivFrom(a, b, 1) IN [q |-> BNTrim(st.q), r |-> st.r]

\* the double nearest to (n + f) * 2^e, where 0 <= f < 1 and sticky is f > 0:
\* round to nearest, ties to the even mantissa
FloatRound(n, e, sticky) ==
    IF BNBitLen(n) <= MantissaBits THEN [m |-> n, e |-> e]
    ELSE LET k    == BNBitLen(n) - MantissaBits
             kept == BNShr(n, k)
             rest == sticky \/ \E j \in 1..(k - 1) : BNBit(n, j) = 1
             up   == BNBit(n, k) = 1 /\ (rest \/ BNBit(kept, 1) = 1)
             m    == IF up THEN BNAdd(kept, <<1>>) ELSE kept
         IN  IF BNBitLen(m) > MantissaBits
             THEN [m |-> BNShr(m, 1), e |-> e + k + 1]
             ELSE [m |-> m, e |-> e + k]

\* float(n) for an int n >= 0 below 2^53
FloatOfInt(n) == [m |-> BNFromInt(n), e |-> 0]

\* x / y in binary64, y > 0
FloatDiv(x, y) ==
    IF x.m = <<>> THEN x
    ELSE LET s  == MantissaBits + 3 + BNBitLen(y.m) - BNBitLen(x.m)
             dm == BNDivMod(BNShl(x.m, s), y.m)
         IN  FloatRound(dm.q, x.e - y.e - s, dm.r # <<>>)

\* x * y in binary64
FloatMul(x, y) == FloatRound(BNMul(x.m, y.m), x.e + y.e, FALSE)

\* x < y
FloatLess(x, y) ==
    IF y.m = <<>> THEN FALSE
    ELSE IF x.m = <<>> THEN TRUE
    ELSE IF x.e >= y.e THEN BNCmp(BNShl(x.m, x.e - y.e), y.m) < 0
    ELSE BNCmp(x.m, BNShl(y.m, y.e - x.e)) < 0

\* int(x) for x >= 0
FloatTrunc(x) ==
    IF x.e >= 0 THEN BNToInt(BNShl(x.m, x.e)) ELSE BNToInt(BNShr(x.m, -x.e))

\* (mutant) round(x) for x >= 0 with a half rounded up
RoundHalfUp(x) ==
    IF x.e >= 0 THEN FloatTrunc(x)
    ELSE FloatTrunc(x) + BNBit(x.m, -x.e)

\* round(x) for x >= 0: Python 3 rounds half to even
PyRound(x) ==
    IF x.e >= 0 THEN FloatTrunc(x)
    ELSE LET k    == -x.e
             ip   == FloatTrunc(x)
             rest == \E j \in 1..(k - 1) : BNBit(x.m, j) = 1
         IN  IF BNBit(x.m, k) = 1 /\ (rest \/ ip % 2 = 1) THEN ip + 1 ELSE ip

-----------------------------------------------------------------------------
(* Geometry utilities (utils.py)                                           *)

\* the default of normalize_points' size
DefaultSize == 100

\* the default of downsample_points' max_points
DefaultMaxPoints == 100

normalize_points(points, size) ==
    IF points = <<>> THEN <<>>
    ELSE LET xs    == [i \in 1..Len(points) |-> points[i].x]
             ys    == [i \in 1..Len(points) |-> points[i].y]
             min_x == SeqMin(xs)
             max_x == SeqMax(xs)
             min_y == SeqMin(ys)
             max_y == SeqMax(ys)
             w     == FracSub(max_x, min_x)
             h     == FracSub(max_y, min_y)
         IN  IF w = FracOfInt(0) \/ h = FracOfInt(0) THEN <<>>
             ELSE LET scale    == FracDiv(FracOfInt(size), FracMax(w, h))
                      center_x == FracDiv(FracAdd(min_x, max_x), FracOfInt(2))
                      center_y == FracDiv(FracAdd(min_y, max_y), FracOfInt(2))
                      half     == FracDiv(FracOfInt(size), FracOfInt(2))
                  IN  [i \in 1..Len(points) |->
                          Pt(FracAdd(FracMul(FracSub(points[i].x, center_x), scale), half),
                             FracAdd(FracMul(FracSub(points[i].y, center_y), scale), half),
                             "tuple")]

\* step = len(points) / max_points
downsample_step(len, max_points) == FloatDiv(FloatOfInt(len), FloatOfInt(max_points))

\* (mutant) the index nearest to i * step
downsample_index_nearest(step, i) == PyRound(FloatMul(FloatOfInt(i), step))

\* the index (from 0) taken for i: int(i * step)
downsample_index(step, i) == FloatTrunc(FloatMul(FloatOfInt(i), step))

downsample_picks(points, step, max_points) ==
    [i \in 1..max_points |-> points[downsample_index(step, i - 1) + 1]]

\* max_points >= 1
downsample_points(points, max_points) ==
    IF Len(points) <= max_points THEN points
    ELSE downsample_picks(points, downsample_step(Len(points), max_points), max_points)

-----------------------------------------------------------------------------
(* Vector markup (utils.py).  A markup string is the sequence of its       *)
(* <path ...> tags; a tag says whether it holds fill="none", whether it    *)
(* holds stroke, whether it has a d="..." attribute, and the numeric       *)
(* literals of that attribute in order.                                    *)

PathTag(fill_none, stroke, has_d, d) ==
    [fill_none |-> fill_none, stroke |-> stroke, has_d |-> has_d, d |-> d]

\* consecutive numbers are paired; an odd one at the end is left out
extract_points_from_d(d) ==
    [k \in 1..(Len(d) \div 2) |->
        Pt(FracOfInt(d[2 * k - 1]), FracOfInt(d[2 * k]), "tuple")]

\* list.sort(key = item['x']) is stable: an item goes behind every item
\* that was before it and is not greater
RECURSIVE SortByX(_)
SortByX(paths) ==
    IF paths = <<>> THEN <<>>
    ELSE LET n      == Len(paths)
             item   == paths[n]
             sorted == SortByX(SubSeq(paths, 1, n - 1))
             k      == Cardinality({i \in 1..(n - 1) : ~FracLess(item.x, sorted[i].x)})
         IN  SubSeq(sorted, 1, k) \o <<item>> \o SubSeq(sorted, k + 1, n - 1)

\* the paths of the tags kept, in markup order
RECURSIVE KeptPaths(_)
KeptPaths(tags) ==
    IF tags = <<>> THEN <<>>
    ELSE LET n    == Len(tags)
             tag  == tags[n]
             rest == KeptPaths(SubSeq(tags, 1, n - 1))
             pts  == extract_points_from_d(tag.d)
         IN  IF tag.fill_none \/ tag.stroke THEN rest
             ELSE IF ~tag.has_d \/ pts = <<>> THEN rest
             ELSE Append(rest, [d |-> tag.d, points |-> pts,
                                x |-> SeqMin([i \in 1..Len(pts) |-> pts[i].x])])

\* (mutant) the paths stay in markup order
parse_svg_paths_unsorted(svg_content) == KeptPaths(svg_content)

parse_svg_paths(svg_content) == SortByX(KeptPaths(svg_content))

-----------------------------------------------------------------------------
(* Distance engine and matcher (solver.py)                                 *)

\* calculate_distance downsamples a cloud of this many points or more
DownsampleFrom == 100

\* the rejection threshold of solve
RejectThreshold == 1000

SquaredDist(p, q) ==
    LET dx == FracSub(p.x, q.x)
        dy == FracSub(p.y, q.y)
    IN  FracAdd(FracMul(dx, dx), FracMul(dy, dy))

\* min_dist after the first n points of p2
RECURSIVE MinDist(_, _, _)
MinDist(p, p2, n) ==
    IF n = 0 THEN Inf
    ELSE FracMin(MinDist(p, p2, n - 1), SquaredDist(p, p2[n]))

\* error after the first n points of p1
RECURSIVE ErrorSum(_, _, _)
ErrorSum(p1, p2, n) ==
    IF n = 0 THEN FracOfInt(0)
    ELSE FracAdd(ErrorSum(p1, p2, n - 1), MinDist(p1[n], p2, Len(p2)))

\* a cloud of 100 points or more is downsampled first
Sampled(pts) ==
    IF Len(pts) < DownsampleFrom THEN pts
    ELSE downsample_points(pts, DefaultMaxPoints)

\* error / len(p1): [raised, value], raised for the ZeroDivisionError that an
\* empty p1 gives
MeanError(p1, p2) ==
    IF Len(p1) = 0 THEN [raised |-> TRUE, value |-> FracOfInt(0)]
    ELSE [raised |-> FALSE,
          value |-> FracDiv(ErrorSum(p1, p2, Len(p1)), FracOfInt(Len(p1)))]

calculate_distance(pts1, pts2) == MeanError(Sampled(pts1), Sampled(pts2))

\* (d1 + d2) / 2 of two distances that did not raise
Symmetric(d1, d2) ==
    IF d1.raised \/ d2.raised THEN [raised |-> TRUE, value |-> FracOfInt(0)]
    ELSE [raised |-> FALSE,
          value |-> FracDiv(FracAdd(d1.value, d2.value), FracOfInt(2))]

\* the symmetric score of a cloud against an entry's cloud: [raised, value]
Score(norm_pts, db_pts) ==
    Symmetric(calculate_distance(norm_pts, db_pts),
              calculate_distance(db_pts, norm_pts))

\* one entry of the 1-NN search: prev is the search so far
ScanEntry(prev, item, score) ==
    IF prev.raised THEN prev
    ELSE IF score.raised
         THEN [raised |-> TRUE, best_label |-> "?", best_score |-> Inf]
    ELSE IF FracLess(score.value, prev.best_score)
         THEN [raised |-> FALSE, best_label |-> item.label,
               best_score |-> score.value]
    ELSE prev

\* the 1-NN search after the first n entries: [raised, best_label, best_score]
RECURSIVE Scan(_, _, _)
Scan(kb, norm_pts, n) ==
    IF n = 0 THEN [raised |-> FALSE, best_label |-> "?", best_score |-> Inf]
    ELSE ScanEntry(Scan(kb, norm_pts, n - 1), kb[n],
                   Score(norm_pts, kb[n].points))

\* (mutant) the threshold itself is still trusted
AcceptsAtThreshold(best_score) == ~FracLess(FracOfInt(RejectThreshold), best_score)

\* whether the best match is trusted
Accepts(best_score) == FracLess(best_score, FracOfInt(RejectThreshold))

\* one character of solve: prev is the result so far, best the search of
\* the character's normalized cloud
SolveChar(prev, raw_pts, best) ==
    IF prev.raised \/ raw_pts = <<>> THEN prev
    ELSE IF best.raised THEN [raised |-> TRUE, final_text |-> <<>>]
    ELSE [raised |-> FALSE,
          final_text |-> Append(prev.final_text,
                                IF Accepts(best.best_score)
                                THEN best.best_label ELSE "?")]

\* solve after the first n paths: [raised, final_text]
RECURSIVE SolvePaths(_, _, _)
SolvePaths(kb, paths, n) ==
    IF n = 0 THEN [raised |-> FALSE, final_text |-> <<>>]
    ELSE SolveChar(SolvePaths(kb, paths, n - 1), paths[n].points,
                   Scan(kb, normalize_points(paths[n].points, DefaultSize), Len(kb)))

\* the paths solve works on: a list is taken as it is, markup is parsed
InputPaths(input_data) ==
    IF input_data.kind = "list" THEN input_data.paths
    ELSE parse_svg_paths(input_data.svg)

SolveAll(kb, paths) == SolvePaths(kb, paths, Len(paths))

\* (mutant) a cloud that normalizes to nothing is skipped
solve_skipping_degenerate(kb, input_data) ==
    SolveAll(kb, SelectSeq(InputPaths(input_data),
                           LAMBDA p : normalize_points(p.points, DefaultSize) # <<>>))

\* CaptchaSolver.solve: [raised, final_text], final_text the emitted symbols
solve(kb, input_data) == SolveAll(kb, InputPaths(input_data))

-----------------------------------------------------------------------------
(* The persisted store (solver.py).  json.dump writes every point as a     *)
(* JSON array, whatever container held it; json.load reads a JSON array    *)
(* back as a list.                                                         *)

JsonPoints(points) ==
    [i \in 1..Len(points) |-> Pt(points[i].x, points[i].y, "list")]

\* the text json.dump writes for a store, as the value json.load reads back
json_dump(kb) ==
    [i \in 1..Len(kb) |-> [label |-> kb[i].label, points |-> JsonPoints(kb[i].points)]]

\* no file at db_path
FileAbsent == [status |-> "absent", data |-> <<>>]

\* a file json.load parses: the one json.dump wrote
FileHolding(data) == [status |-> "valid", data |-> data]

\* a file json.load cannot parse: what is left of a file that held data
FileCorrupt(data) == [status |-> "corrupt", data |-> data]

\* (mutant) whatever the file holds is taken
load_db_unchecked(file) == file.data

\* CaptchaSolver.load_db: the knowledge base it leaves
load_db(file) == IF file.status = "valid" THEN file.data ELSE <<>>

\* (mutant) only the entry just appended is written
save_db_last(kb) == FileHolding(json_dump(<<kb[Len(kb)]>>))

\* CaptchaSolver.save_db: the file it leaves
save_db(kb) == FileHolding(json_dump(kb))

\* the solver and the file once the knowledge base kb is saved
Saved(kb) == [knowledge_base |-> kb, db_file |-> save_db(kb)]

\* CaptchaSolver.add_training_data: the solver and the file it leaves
add_training_data(kb, points, label) ==
    Saved(Append(kb, [label |-> label, points |-> points]))

-----------------------------------------------------------------------------
(* Ingestion (train.py).  A labeled directory is missing or a set of       *)
(* files; a file is its name without ".svg", as a sequence of characters,  *)
(* and its markup.                                                         *)

\* code points of the characters file names are made of
CharCode == [c \in {"7", "A", "Z", "a"} |->
                CASE c = "7" -> 55 [] c = "A" -> 65 [] c = "Z" -> 90 [] c = "a" -> 97]

\* str.upper on one character
Upper(c) == IF c = "a" THEN "A" ELSE c

\* a < b for two file names: "A.svg" sorts before "A7.svg"
RECURSIVE NameLess(_, _)
NameLess(a, b) ==
    IF b = <<>> THEN FALSE
    ELSE IF a = <<>> THEN TRUE
    ELSE IF a[1] # b[1] THEN CharCode[a[1]] < CharCode[b[1]]
    ELSE NameLess(Tail(a), Tail(b))

\* files.sort()
RECURSIVE SortedFiles(_)
SortedFiles(files) ==
    IF files = {} THEN <<>>
    ELSE LET first == CHOOSE f \in files :
                          \A g \in files \ {f} : NameLess(f.name, g.name)
         IN  <<first>> \o SortedFiles(files \ {first})

\* the file's characters added after the first n
RECURSIVE AddChars(_, _, _, _)
AddChars(st, paths, label_text, n) ==
    IF n = 0 THEN st
    ELSE add_training_data(AddChars(st, paths, label_text, n - 1).knowledge_base,
                           normalize_points(paths[n].points, DefaultSize),
                           Upper(label_text[n]))

\* one file of the loop: skipped when its path count is not its label's
AddFile(st, paths, label_text) ==
    IF Len(paths) # Len(label_text) THEN st
    ELSE AddChars(st, paths, label_text, Len(paths))

\* the loop after the first n files
RECURSIVE AddFiles(_, _, _)
AddFiles(st, files, n) ==
    IF n = 0 THEN st
    ELSE AddFile(AddFiles(st, files, n - 1),
                 parse_svg_paths(files[n].svg), files[n].name)

DirMissing == [exists |-> FALSE, files |-> {}]

DirHolding(files) == [exists |-> TRUE, files |-> files]

\* rebuild_database: the file it leaves.  Its own solver starts from an
\* empty knowledge base in memory; the file is written by add_training_data
rebuild_database(file, labeled_dir) ==
    IF ~labeled_dir.exists THEN file
    ELSE AddFiles([knowledge_base |-> <<>>, db_file |-> file],
                  SortedFiles(labeled_dir.files),
                  Cardinality(labeled_dir.files)).db_file

-----------------------------------------------------------------------------
(* Bounds and the inputs drawn                                             *)

\* the most entries a store drawn for matching holds
MaxKB == 2

\* the most <path> tags of a markup string, and clouds of a contour list
MaxPaths == 2

SeqsUpTo(S, n) == UNION {[1..k -> S] : k \in 0..n}

\* path data: a stroke P; Q, at symmetric distance exactly 1000 from P; S,
\* at 1600 from P; R, at 25 from P; P moved right; a single point; a
\* vertical stroke with a number left over
DataP  == <<0, 0, 2, 5>>
DataQ  == <<0, 0, 5, 4>>
DataS  == <<1, 5, 3, 0>>
DataR  == <<6, 0, 8, 4>>
DataP2 == <<3, 0, 5, 5>>
DataDot == <<7, 1>>
DataBar == <<4, 1, 4, 3, 9>>

Shape(d) == normalize_points(extract_points_from_d(d), DefaultSize)

\* an entry as load_db leaves it
Entry(label, d) == [label |-> label, points |-> JsonPoints(Shape(d))]

\* the entries of the stores drawn for matching
MatchEntries ==
    {Entry("A", DataP), Entry("7", DataP), Entry("7", DataQ), Entry("A", DataS)}

MatchStores == SeqsUpTo(MatchEntries, MaxKB)

MatchTags ==
    {PathTag(FALSE, FALSE, TRUE, d) : d \in {DataP, DataR, DataP2, DataDot, DataBar}}
        \cup {PathTag(FALSE, TRUE, TRUE, DataQ)}

\* a contour as process_png_content hands it over: lists of integers
Contour(xy) == [i \in 1..Len(xy) |-> Pt(FracOfInt(xy[i][1]), FracOfInt(xy[i][2]), "list")]

MatchContours ==
    {[points |-> Contour(<<<<0, 0>>, <<0, 20>>, <<10, 20>>, <<10, 0>>>>)],
     [points |-> Contour(<<<<12, 0>>, <<12, 25>>, <<14, 0>>>>)]}

MatchInputs ==
    {[kind |-> "svg", svg |-> t] : t \in SeqsUpTo(MatchTags, MaxPaths)}
        \cup {[kind |-> "list", paths |-> c] : c \in SeqsUpTo(MatchContours, MaxPaths)}

-----------------------------------------------------------------------------
(* Matching as a function of the store and the input                       *)

InitSolve ==
    /\ knowledge_base \in MatchStores
    /\ db_file = FileHolding(knowledge_base)
    /\ op = "start"
    /\ arg \in MatchInputs
    /\ ret = <<>>

\* solve(arg) on the store drawn
SolveCall ==
    /\ op = "start"
    /\ op' = "solve"
    /\ ret' = solve(knowledge_base, arg)
    /\ UNCHANGED <<knowledge_base, db_file, arg>>

NextSolve == SolveCall

SpecSolve == InitSolve /\ [][NextSolve]_vars

-----------------------------------------------------------------------------
(* What the claims about matching speak of                                 *)

NormOf(path) == normalize_points(path.points, DefaultSize)

\* the symmetric scores of a cloud against the entries, in store order
ScoreList(kb, norm_pts) ==
    [j \in 1..Len(kb) |-> Score(norm_pts, kb[j].points).value]

\* the least of the scores; infinite when there is none
LeastOf(scores) ==
    IF scores = <<>> THEN Inf
    ELSE CHOOSE b \in {scores[j] : j \in 1..Len(scores)} :
             \A j \in 1..Len(scores) : ~FracLess(scores[j], b)

\* the first position that holds the score b
FirstAt(scores, b) ==
    CHOOSE k \in 1..Len(scores) :
        scores[k] = b /\ \A m \in 1..(k - 1) : scores[m] # b

\* the label of the first entry that scores the least
BestLabelOf(kb, scores) == kb[FirstAt(scores, LeastOf(scores))].label

IsDegenerate(path) == NormOf(path) = <<>>

Threshold == FracOfInt(RejectThreshold)

SolveReturned == op = "solve" /\ ~ret.raised

\* the symbol of a character with these scores, if "?" is for a least score
\* of 1000 or more
SymbolFromThreshold(kb, scores) ==
    IF FracLess(LeastOf(scores), Threshold) THEN BestLabelOf(kb, scores) ELSE "?"

\* the symbol of a character with these scores, if "?" is for a least score
\* above 1000
SymbolAboveThreshold(kb, scores) ==
    IF FracLess(Threshold, LeastOf(scores)) THEN "?" ELSE BestLabelOf(kb, scores)

\* C1 as amended: in every solve that returns, a character gets the unknown
\* sentinel "?" exactly when its best symmetric score over the entries is
\* 1000 or more (a best score of exactly 1000 is rejected; an empty store
\* scores infinity), and the label of the first best-scoring entry otherwise.
C1_RejectsFromThreshold ==
    SolveReturned =>
        /\ Len(ret.final_text) = Len(InputPaths(arg))
        /\ \A i \in 1..Len(ret.final_text) :
               ret.final_text[i] =
                   SymbolFromThreshold(knowledge_base,
                       ScoreList(knowledge_base, NormOf(InputPaths(arg)[i])))

\* a character whose best score is exactly 1000 got "?"
C1_Witness ==
    /\ SolveReturned
    /\ \E i \in 1..Len(ret.final_text) :
           /\ LeastOf(ScoreList(knowledge_base, NormOf(InputPaths(arg)[i]))) = Threshold
           /\ ret.final_text[i] = "?"

\* C1 as claimed: "?" exactly when the best score is strictly greater than
\* 1000, the best label at exactly 1000.
C1_RejectsOnlyAboveThreshold ==
    SolveReturned =>
        /\ Len(ret.final_text) = Len(InputPaths(arg))
        /\ \A i \in 1..Len(ret.final_text) :
               ret.final_text[i] =
                   SymbolAboveThreshold(knowledge_base,
                       ScoreList(knowledge_base, NormOf(InputPaths(arg)[i])))

\* C2 as claimed: against a non-empty store solve does not raise, and its
\* result holds one symbol for each character that is not degenerate (a
\* degenerate one is dropped).
C2_DegenerateDropped ==
    (op = "solve" /\ knowledge_base # <<>>) =>
        LET paths == InputPaths(arg)
        IN  /\ ~ret.raised
            /\ Len(ret.final_text) =
                   Cardinality({i \in 1..Len(paths) : ~IsDegenerate(paths[i])})

\* C3: against the empty store solve returns only "?", one for each
\* extracted character cloud.
C3_EmptyStoreAllUnknown ==
    (op = "solve" /\ knowledge_base = <<>>) =>
        /\ ~ret.raised
        /\ ret.final_text = [i \in 1..Len(InputPaths(arg)) |-> "?"]

\* the empty store met two clouds, one of them degenerate
C3_Witness ==
    /\ op = "solve"
    /\ knowledge_base = <<>>
    /\ Len(InputPaths(arg)) = 2
    /\ \E i \in 1..2 : IsDegenerate(InputPaths(arg)[i])
    /\ ret.final_text = <<"?", "?">>

-----------------------------------------------------------------------------
(* The life of a solver and of the file at its db_path: the service's      *)
(* solver (main.py), the calls of its interface, the ingestion script run  *)
(* beside it (train.py), and what can happen to the file.                  *)

\* the most files of a labeled directory
MaxFiles == 2

LabeledFile(name, svg) == [name |-> name, svg |-> svg]

FilledTag(d) == PathTag(FALSE, FALSE, TRUE, d)

\* "A7.svg", its paths right to left in the markup; "a.svg", a single
\* point; "Z.svg", two paths for one character
TrainFiles ==
    {LabeledFile(<<"A", "7">>, <<FilledTag(DataR), FilledTag(DataP)>>),
     LabeledFile(<<"a">>, <<FilledTag(DataDot)>>),
     LabeledFile(<<"Z">>, <<FilledTag(DataP), FilledTag(DataR)>>)}

LabeledDirs ==
    {DirMissing}
        \cup {DirHolding(F) : F \in {G \in SUBSET TrainFiles : Cardinality(G) <= MaxFiles}}

\* samples given to add_training_data: normalized clouds
AddSamples ==
    {[points |-> Shape(DataP), label |-> "A"], [points |-> Shape(DataR), label |-> "7"]}

\* what a request brings to solve: markup, or the contours of an image
Requests ==
    {[kind |-> "svg", svg |-> <<FilledTag(DataR), FilledTag(DataP)>>],
     [kind |-> "svg", svg |-> <<FilledTag(DataDot)>>],
     [kind |-> "list", paths |-> <<[points |-> Contour(<<<<12, 0>>, <<12, 25>>, <<14, 0>>>>)]>>]}

\* the service's solver is constructed before there is a file
Init ==
    /\ db_file = FileAbsent
    /\ knowledge_base = load_db(FileAbsent)
    /\ op = "start"
    /\ arg = <<>>
    /\ ret = <<>>

\* load_db, as the service's startup calls it
LoadDb ==
    /\ knowledge_base' = load_db(db_file)
    /\ op' = "load_db"
    /\ arg' = [before |-> knowledge_base]
    /\ ret' = <<>>
    /\ UNCHANGED db_file

AddTrainingData ==
    \E s \in AddSamples :
        /\ Len(knowledge_base) < MaxKB
        /\ knowledge_base' = add_training_data(knowledge_base, s.points, s.label).knowledge_base
        /\ db_file' = add_training_data(knowledge_base, s.points, s.label).db_file
        /\ op' = "add_training_data"
        /\ arg' = [before |-> knowledge_base, points |-> s.points, label |-> s.label]
        /\ ret' = <<>>

\* the ingestion script, run to its end beside the service
RebuildDatabase ==
    \E labeled_dir \in LabeledDirs :
        /\ db_file' = rebuild_database(db_file, labeled_dir)
        /\ op' = "rebuild_database"
        /\ arg' = [before |-> db_file, labeled_dir |-> labeled_dir]
        /\ ret' = <<>>
        /\ UNCHANGED knowledge_base

\* (mutant) the recognition path saves the store it used
SolveCaptchaSaving ==
    \E input_data \in Requests :
        /\ op' = "solve"
        /\ arg' = input_data
        /\ ret' = solve(knowledge_base, input_data)
        /\ db_file' = save_db(knowledge_base)
        /\ UNCHANGED knowledge_base

\* the /solve handler: a raise of solve becomes an error response
SolveCaptcha ==
    \E input_data \in Requests :
        /\ op' = "solve"
        /\ arg' = input_data
        /\ ret' = solve(knowledge_base, input_data)
        /\ UNCHANGED <<knowledge_base, db_file>>

\* the file is deleted
FileRemoved ==
    /\ db_file.status # "absent"
    /\ db_file' = FileAbsent
    /\ op' = "file_removed"
    /\ arg' = <<>>
    /\ ret' = <<>>
    /\ UNCHANGED knowledge_base

\* the file is cut short or overwritten: it no longer parses
FileDamaged ==
    /\ db_file.status = "valid"
    /\ db_file' = FileCorrupt(db_file.data)
    /\ op' = "file_damaged"
    /\ arg' = <<>>
    /\ ret' = <<>>
    /\ UNCHANGED knowledge_base

Next ==
    \/ LoadDb
    \/ AddTrainingData
    \/ RebuildDatabase
    \/ SolveCaptcha
    \/ FileRemoved
    \/ FileDamaged

Spec == Init /\ [][Next]_vars

-----------------------------------------------------------------------------
(* What the claims about the store speak of                                *)

\* the entries a file gives to whoever loads it
PersistedEntries(file) == IF file.status = "valid" THEN file.data ELSE <<>>

\* the samples of a labeled directory: what ingestion into no file persists
SamplesOf(labeled_dir) == PersistedEntries(rebuild_database(FileAbsent, labeled_dir))

\* C4: load_db leaves the empty knowledge base when the file is missing or
\* does not parse, whatever the knowledge base held before, and the
\* persisted list when the file parses.
C4_LoadDbTolerant ==
    op = "load_db" =>
        /\ db_file.status \in {"absent", "corrupt"} => knowledge_base = <<>>
        /\ db_file.status = "valid" => knowledge_base = db_file.data

\* a solver that held entries loaded a file that held entries and no longer
\* parses
C4_Witness ==
    /\ op = "load_db"
    /\ db_file.status = "corrupt"
    /\ db_file.data # <<>>
    /\ arg.before # <<>>
    /\ knowledge_base = <<>>

\* C5: add_training_data appends the one entry {label, points} behind the
\* entries held before, which stay as they were, and the file it leaves
\* holds the labels and coordinates of the whole knowledge base in order, so
\* that load_db restores them.
C5_AddAppendsAndPersists ==
    op = "add_training_data" =>
        /\ Len(knowledge_base) = Len(arg.before) + 1
        /\ SubSeq(knowledge_base, 1, Len(arg.before)) = arg.before
        /\ knowledge_base[Len(knowledge_base)] =
               [label |-> arg.label, points |-> arg.points]
        /\ db_file.status = "valid"
        /\ StoreData(db_file.data) = StoreData(knowledge_base)
        /\ StoreData(load_db(db_file)) = StoreData(knowledge_base)

\* a second entry was added behind a first
C5_Witness ==
    /\ op = "add_training_data"
    /\ Len(arg.before) = 1
    /\ Len(db_file.data) = 2

\* C6 as claimed: after rebuild_database the file gives exactly the samples
\* of the labeled directory's files whose path count is their label's
\* length, in file name order, and none of the entries it gave before, also
\* when the directory is missing or empty or every file is skipped.
C6_RebuildFromScratch ==
    op = "rebuild_database" =>
        StoreData(PersistedEntries(db_file)) = StoreData(SamplesOf(arg.labeled_dir))

\* C7: a solve call changes neither the knowledge base nor the file; the
\* knowledge base changes only in add_training_data and load_db, the file
\* only in add_training_data and the ingestion script, or from outside the
\* program.
C7_SolveWritesNothing ==
    [][/\ op' = "solve" => UNCHANGED <<knowledge_base, db_file>>
       /\ knowledge_base' # knowledge_base =>
              op' \in {"add_training_data", "load_db"}
       /\ db_file' # db_file =>
              op' \in {"add_training_data", "rebuild_database",
                       "file_removed", "file_damaged"}]_vars

\* solve answered from a knowledge base that is not what the file holds
C7_Witness ==
    /\ op = "solve"
    /\ ~ret.raised
    /\ ret.final_text # <<>>
    /\ knowledge_base # <<>>
    /\ db_file.status = "valid"
    /\ StoreData(db_file.data) # StoreData(knowledge_base)

-----------------------------------------------------------------------------
(* A picture is labeled, ingested, and then recognized: rebuild_database   *)
(* on a directory holding the one file, a start of the service, and a      *)
(* request with the same paths in any markup order.                        *)

\* the characters of the file names, in the order they label the paths
LabelText == <<"a", "7", "Z">>

PictureTags == MatchTags \cup {FilledTag(DataQ)}

Pictures == SeqsUpTo(PictureTags, MaxPaths)

\* the file that labels every path of the picture
Labeled(svg) ==
    LabeledFile(SubSeq(LabelText, 1, Len(parse_svg_paths(svg))), svg)

\* the markups that hold the same tags in some order
Reordered(svg) ==
    {[i \in 1..Len(svg) |-> svg[f[i]]] :
        f \in {g \in [1..Len(svg) -> 1..Len(svg)] :
                   \A i, j \in 1..Len(svg) : i # j => g[i] # g[j]}}

InitTrained ==
    /\ db_file = FileAbsent
    /\ knowledge_base = load_db(FileAbsent)
    /\ op = "start"
    /\ arg = <<>>
    /\ ret = <<>>

TrainOn ==
    \E svg \in Pictures :
        /\ op = "start"
        /\ db_file' = rebuild_database(db_file, DirHolding({Labeled(svg)}))
        /\ op' = "rebuild_database"
        /\ arg' = [file |-> Labeled(svg)]
        /\ UNCHANGED <<knowledge_base, ret>>

Reload ==
    /\ op = "rebuild_database"
    /\ knowledge_base' = load_db(db_file)
    /\ op' = "load_db"
    /\ UNCHANGED <<db_file, arg, ret>>

Recognize ==
    /\ op = "load_db"
    /\ \E svg \in Reordered(arg.file.svg) :
           /\ op' = "solve"
           /\ arg' = [file |-> arg.file, svg |-> svg]
           /\ ret' = solve(knowledge_base, [kind |-> "svg", svg |-> svg])
           /\ UNCHANGED <<knowledge_base, db_file>>

NextTrained == TrainOn \/ Reload \/ Recognize

SpecTrained == InitTrained /\ [][NextTrained]_vars

\* the labels the file name gives the paths, left to right
RankLabels(file) == [i \in 1..Len(file.name) |-> Upper(file.name[i])]

PointSet(points) == {Coords(points)[i] : i \in 1..Len(points)}

\* the paths have different least x, and normalized shapes that are not
\* empty and differ as sets of points
TellApart(paths) ==
    /\ \A i \in 1..Len(paths) : ~IsDegenerate(paths[i])
    /\ \A i, j \in 1..Len(paths) :
           i # j => /\ paths[i].x # paths[j].x
                    /\ PointSet(NormOf(paths[i])) # PointSet(NormOf(paths[j]))

-----------------------------------------------------------------------------
(* Raster input (utils.py).  The image library decodes the bytes, cleans   *)
(* the image and finds the external contours; process_png_content is       *)
(* modelled from the contours on.  A contour is a sequence of integer      *)
(* points, each a list [px, py].                                           *)

IntX(p) == p.x[1]

IntY(p) == p.y[1]

SetMin(S) == CHOOSE m \in S : \A n \in S : m <= n

SetMax(S) == CHOOSE m \in S : \A n \in S : m >= n

\* cv2.boundingRect of a contour: the least x and y, and the counts of
\* columns and rows covered
boundingRect(cnt) ==
    [x |-> SetMin({IntX(cnt[i]) : i \in 1..Len(cnt)}),
     y |-> SetMin({IntY(cnt[i]) : i \in 1..Len(cnt)}),
     w |-> SetMax({IntX(cnt[i]) : i \in 1..Len(cnt)})
               - SetMin({IntX(cnt[i]) : i \in 1..Len(cnt)}) + 1,
     h |-> SetMax({IntY(cnt[i]) : i \in 1..Len(cnt)})
               - SetMin({IntY(cnt[i]) : i \in 1..Len(cnt)}) + 1]

\* twice the signed area of the polygon up to its first n edges
RECURSIVE Shoelace(_, _)
Shoelace(cnt, n) ==
    IF n = 0 THEN 0
    ELSE Shoelace(cnt, n - 1)
             + IntX(cnt[n]) * IntY(cnt[(n % Len(cnt)) + 1])
             - IntX(cnt[(n % Len(cnt)) + 1]) * IntY(cnt[n])

\* twice cv2.contourArea
TwiceArea(cnt) == Abs(Shoelace(cnt, Len(cnt)))

\* the noise floor: area < 150 or h < 20
MinArea == 150

MinHeight == 20

\* w / float(h)
aspect_ratio(w, h) == FloatDiv(FloatOfInt(w), FloatOfInt(h))

\* aspect_ratio > 1.1
IsFused(w, h) == FloatLess(FloatDiv(FloatOfInt(11), FloatOfInt(10)), aspect_ratio(w, h))

AtLeastTwo(n) == IF n < 2 THEN 2 ELSE n

\* int(round(aspect_ratio / 0.80)), and 2 if that is less
num_chars(w, h) ==
    AtLeastTwo(PyRound(FloatDiv(aspect_ratio(w, h),
                                FloatDiv(FloatOfInt(80), FloatOfInt(100)))))

\* the points of band i (from 0): start_x <= px < end_x
BandPoints(cnt, x, step, i) ==
    SelectSeq(cnt, LAMBDA p : x + i * step <= IntX(p) /\ IntX(p) < x + (i + 1) * step)

\* a band is kept with more than this many points
MinBandPoints == 10

KeptBand(sub_points) ==
    IF Len(sub_points) > MinBandPoints THEN <<[points |-> sub_points]>> ELSE <<>>

\* the bands kept among the first n
RECURSIVE Bands(_, _, _, _)
Bands(cnt, x, step, n) ==
    IF n = 0 THEN <<>>
    ELSE Bands(cnt, x, step, n - 1) \o KeptBand(BandPoints(cnt, x, step, n - 1))

\* one contour of the loop, with its bounding box
Component(cnt, bbox) ==
    IF TwiceArea(cnt) < 2 * MinArea \/ bbox.h < MinHeight THEN <<>>
    ELSE IF IsFused(bbox.w, bbox.h)
         THEN Bands(cnt, bbox.x, bbox.w \div num_chars(bbox.w, bbox.h),
                    num_chars(bbox.w, bbox.h))
    ELSE <<[points |-> cnt]>>

\* the loop after the first n contours of the sorted list
RECURSIVE Components(_, _)
Components(c_list, n) ==
    IF n = 0 THEN <<>>
    ELSE Components(c_list, n - 1)
             \o Component(c_list[n].points, boundingRect(c_list[n].points))

\* the contours with the key they are sorted by
Keyed(contours) ==
    [i \in 1..Len(contours) |->
        [points |-> contours[i], x |-> FracOfInt(boundingRect(contours[i]).x)]]

SortedComponents(c_list) == Components(c_list, Len(c_list))

\* process_png_content from the contours on: the character clouds
process_png_content(contours) == SortedComponents(SortByX(Keyed(contours)))

\* the widest component drawn
MaxWidth == 50

Heights == {10, 20, 24}

\* the contour of a blob w columns wide and h rows high whose least x is
\* x0: a point in every column along the top, then along the bottom back
Blob(x0, w, h) ==
    [i \in 1..(2 * w) |->
        IF i <= w
        THEN Pt(FracOfInt(x0 + i - 1), FracOfInt((i - 1) % 2), "list")
        ELSE Pt(FracOfInt(x0 + 2 * w - i), FracOfInt(h - 1 - ((2 * w - i) % 2)), "list")]

\* a single character, higher than wide
Glyph == Blob(0, 12, 30)

\* the contours of an image: a blob, alone or found before a glyph that
\* lies left of it
PngImages ==
    {<<Blob(0, w, h)>> : w \in 1..MaxWidth, h \in Heights}
        \cup {<<Blob(20, w, h), Glyph>> : w \in 1..MaxWidth, h \in Heights}

InitPng ==
    /\ db_file = FileAbsent
    /\ knowledge_base = load_db(FileAbsent)
    /\ op = "start"
    /\ arg \in PngImages
    /\ ret = <<>>

ProcessPng ==
    /\ op = "start"
    /\ op' = "process_png_content"
    /\ ret' = process_png_content(arg)
    /\ UNCHANGED <<knowledge_base, db_file, arg>>

NextPng == ProcessPng

SpecPng == InitPng /\ [][NextPng]_vars

\* the blob of the image drawn: its first contour
BlobBox == boundingRect(arg[1])

\* the blob passes the noise floor and is twice as wide as high
RatioTwo ==
    /\ op = "process_png_content"
    /\ TwiceArea(arg[1]) >= 2 * MinArea
    /\ BlobBox.h >= MinHeight
    /\ BlobBox.w = 2 * BlobBox.h

\* C9 as amended: a surviving component of aspect ratio 2.0 is split into 2
\* candidate bands: 2.0 / 0.80 is 2.5 and round takes a half to the even
\* integer, so the loop over the bands runs for num_chars = 2.
C9_RatioTwoGivesTwoBands ==
    RatioTwo =>
        /\ num_chars(BlobBox.w, BlobBox.h) = 2
        /\ Len(ret) = Len(arg) + 1

\* a blob 40 wide and 20 high, alone in the image, came out as two clouds
C9_Witness ==
    /\ RatioTwo
    /\ BlobBox.w = 40
    /\ Len(arg) = 1
    /\ Len(ret) = 2

\* C9 as claimed: a surviving component of aspect ratio 2.0 is split into 3
\* candidate bands.
C9_RatioTwoGivesThreeBands ==
    RatioTwo =>
        /\ num_chars(BlobBox.w, BlobBox.h) = 3
        /\ Len(ret) = Len(arg) + 2

-----------------------------------------------------------------------------
(* downsample_points as a function of the cloud and max_points             *)

\* the longest cloud drawn, and the largest max_points
MaxLen == 32

MaxPoints == 24

\* a cloud of n points whose x is their index from 0
Indexed(n) == [i \in 1..n |-> Pt(FracOfInt(i - 1), FracOfInt(0), "tuple")]

InitDownsample ==
    /\ db_file = FileAbsent
    /\ knowledge_base = load_db(FileAbsent)
    /\ op = "start"
    /\ arg \in {[points |-> Indexed(n), max_points |-> m] :
                    n \in 0..MaxLen, m \in 1..MaxPoints}
    /\ ret = <<>>

Downsample ==
    /\ op = "start"
    /\ op' = "downsample_points"
    /\ ret' = downsample_points(arg.points, arg.max_points)
    /\ UNCHANGED <<knowledge_base, db_file, arg>>

NextDownsample == Downsample

SpecDownsample == InitDownsample /\ [][NextDownsample]_vars

Min2(a, b) == IF a < b THEN a ELSE b

\* floor(i * len / max_points)
FloorIndex(len, max_points, i) == (i * len) \div max_points

\* C10 as amended: downsample_points returns min(len(points), max_points)
\* elements, the input itself when len(points) <= max_points, and otherwise
\* the input elements at the indices int(i * step) for i in [0, max_points),
\* step the float len(points) / max_points: strictly increasing and in
\* range, and equal to floor(i * len / max_points) or, only where
\* i * len / max_points is a whole number, to one less.
C10_DownsampleIndices ==
    op = "downsample_points" =>
        /\ Len(ret) = Min2(Len(arg.points), arg.max_points)
        /\ Len(arg.points) <= arg.max_points => ret = arg.points
        /\ Len(arg.points) > arg.max_points =>
               /\ \A i \in 1..Len(ret) :
                      /\ IntX(ret[i]) \in 0..(Len(arg.points) - 1)
                      /\ ret[i] = arg.points[IntX(ret[i]) + 1]
                      /\ \/ IntX(ret[i]) = FloorIndex(Len(arg.points), arg.max_points, i - 1)
                         \/ /\ IntX(ret[i]) = FloorIndex(Len(arg.points), arg.max_points, i - 1) - 1
                            /\ ((i - 1) * Len(arg.points)) % arg.max_points = 0
               /\ \A i \in 1..(Len(ret) - 1) : IntX(ret[i]) < IntX(ret[i + 1])

\* of 30 points with max_points 22, the twelfth taken is the one at index
\* 14, where floor(11 * 30 / 22) is 15
C10_Witness ==
    /\ op = "downsample_points"
    /\ Len(arg.points) = 30
    /\ arg.max_points = 22
    /\ IntX(ret[12]) = 14

\* C10 as claimed: the elements are those at the indices
\* floor(i * len / max_points), strictly increasing and in range, min(len,
\* max_points) of them, and the input itself when len <= max_points.
C10_DownsampleFloorIndices ==
    op = "downsample_points" =>
        /\ Len(ret) = Min2(Len(arg.points), arg.max_points)
        /\ Len(arg.points) <= arg.max_points => ret = arg.points
        /\ Len(arg.points) > arg.max_points =>
               /\ \A i \in 1..Len(ret) :
                      ret[i] = arg.points[FloorIndex(Len(arg.points), arg.max_points, i - 1) + 1]
               /\ \A i \in 1..(Len(ret) - 1) : IntX(ret[i]) < IntX(ret[i + 1])

-----------------------------------------------------------------------------
(* What the claim about the bands speaks of                                *)

\* the blob passes the noise floor and is split
BlobSplit ==
    /\ op = "process_png_content"
    /\ TwiceArea(arg[1]) >= 2 * MinArea
    /\ BlobBox.h >= MinHeight
    /\ IsFused(BlobBox.w, BlobBox.h)

\* the bands (from 0) of the blob that hold the point p, before any band
\* is dropped for having too few points
BandsHolding(p, bbox) ==
    {i \in 0..(num_chars(bbox.w, bbox.h) - 1) :
        \E j \in 1..Len(BandPoints(arg[1], bbox.x,
                                   bbox.w \div num_chars(bbox.w, bbox.h), i)) :
            BandPoints(arg[1], bbox.x,
                       bbox.w \div num_chars(bbox.w, bbox.h), i)[j] = p}

\* C11 as claimed: when a component is split, every point of its contour
\* falls into exactly one of the num_chars bands, for every width, also one
\* that num_chars does not divide.
C11_BandsPartition ==
    BlobSplit =>
        \A k \in 1..Len(arg[1]) :
            Cardinality(BandsHolding(arg[1][k], BlobBox)) = 1

-----------------------------------------------------------------------------
(* What the claim about stored clouds speaks of                            *)

\* every entry holds at least one point
NoEmptyCloud(entries) == \A i \in 1..Len(entries) : entries[i].points # <<>>

\* none of the clouds a request brings is degenerate
NoDegenerateInput(input_data) ==
    \A i \in 1..Len(InputPaths(input_data)) : ~IsDegenerate(InputPaths(input_data)[i])

\* C12 as claimed: after any load_db, add_training_data and
\* rebuild_database, every entry of the knowledge base and of the file
\* holds a cloud that is not empty, so a solve of clouds that are not
\* degenerate never raises.
C12_NoEmptyCloudStored ==
    /\ NoEmptyCloud(knowledge_base)
    /\ NoEmptyCloud(PersistedEntries(db_file))
    /\ (op = "solve" /\ NoDegenerateInput(arg)) => ~ret.raised
=============================================================================
